---- MODULE Spec2Model ----
(***************************************************************************)
(* A model of pipeit.py: the three decorators pipe, pipe0 and pipestar,   *)
(* the Wrapper objects their factories return, the | operator that        *)
(* applies a Wrapper, and the module-level registration loops.            *)
(*                                                                         *)
(* Python values are tagged records, so that values of different Python   *)
(* types are comparable and never equal.  An outcome is either            *)
(* Return(v) or Raise(err, by), where `by` names who raised: the target   *)
(* function ("target"), the unpacking of *arg in a call expression        *)
(* ("unpack"), or the call of an object that is not callable ("call").    *)
(***************************************************************************)
EXTENDS Integers, Sequences, FiniteSets, TLC

VARIABLES pc, idx, globals, all, scenario, fac, caps, given, x0, steps, last, direct

vars == <<pc, idx, globals, all, scenario, fac, caps, given, x0, steps, last, direct>>

\* The longest chain x | c1 | ... | cn of one expression.
MaxChain == 3

(***************************************************************************)
(* Values                                                                  *)
(***************************************************************************)
None == [t |-> "none"]
I(n) == [t |-> "int", i |-> n]
Sym(n) == [t |-> "sym", n |-> n]
Fn(n) == [t |-> "fn", fn |-> n]
List(s) == [t |-> "list", s |-> s]
Iter(s) == [t |-> "iter", s |-> s]
Range(n) == [t |-> "range", s |-> [k \in 1..n |-> I(k - 1)]]
Res(f, a, k) == [t |-> "res", f |-> f, a |-> a, k |-> k]
Kw(k, v) == [k |-> k, v |-> v]

Iterable(v) == v.t \in {"list", "iter", "range"}

Return(v) == [kind |-> "return", val |-> v]
Raise(e, by) == [kind |-> "raise", err |-> e, by |-> by]

RECURSIVE SumSeq(_)
SumSeq(s) == IF s = <<>> THEN 0 ELSE Head(s).i + SumSeq(Tail(s))

AllInts(s) == \A k \in 1..Len(s) : s[k].t = "int"

(***************************************************************************)
(* Target functions.  The module wraps arbitrary callables; the ones the   *)
(* source names are modelled by what they compute, every other one by an   *)
(* uninterpreted result that records the argument list it was called with. *)
(***************************************************************************)

\* sum(x for x in xs if x<n), the body of both add_if_less doctests
add_if_less(n, xs) ==
    IF ~Iterable(xs) THEN Raise("TypeError", "target")
    ELSE IF xs.s = <<>> THEN Return(I(0))
    ELSE IF n.t # "int" \/ ~AllInts(xs.s) THEN Raise("TypeError", "target")
    ELSE Return(I(SumSeq(SelectSeq(xs.s, LAMBDA x : x.i < n.i))))

\* the lambdas of the doctest and of test(), and a binary one for reduce
Truthy(fn, v) == IF fn = "odd" THEN v.i % 2 = 1 ELSE TRUE
Apply1(fn, v) == IF fn = "inc" THEN I(v.i + 1) ELSE IF fn = "dbl" THEN I(v.i * 2) ELSE v
Apply2(fn, a, b) == IF fn = "add" THEN I(a.i + b.i) ELSE a

RECURSIVE Fold(_, _, _)
Fold(fn, acc, s) == IF s = <<>> THEN acc ELSE Fold(fn, Apply2(fn, acc, Head(s)), Tail(s))

\* builtins.filter(function, iterable)
py_filter(args, kwargs) ==
    IF Len(args) # 2 \/ kwargs # <<>> THEN Raise("TypeError", "target")
    ELSE IF ~Iterable(args[2]) \/ args[1].t # "fn" \/ ~AllInts(args[2].s)
         THEN Raise("TypeError", "target")
    ELSE Return(Iter(SelectSeq(args[2].s, LAMBDA x : Truthy(args[1].fn, x))))

\* builtins.map(function, iterable)
py_map(args, kwargs) ==
    IF Len(args) # 2 \/ kwargs # <<>> THEN Raise("TypeError", "target")
    ELSE IF ~Iterable(args[2]) \/ args[1].t # "fn" \/ ~AllInts(args[2].s)
         THEN Raise("TypeError", "target")
    ELSE Return(Iter([k \in 1..Len(args[2].s) |-> Apply1(args[1].fn, args[2].s[k])]))

\* builtins.list([iterable])
py_list(args, kwargs) ==
    IF Len(args) > 1 \/ kwargs # <<>> THEN Raise("TypeError", "target")
    ELSE IF args = <<>> THEN Return(List(<<>>))
    ELSE IF ~Iterable(args[1]) THEN Raise("TypeError", "target")
    ELSE Return(List(args[1].s))

\* functools.reduce(function, iterable[, initial]): positional parameters only
py_reduce(args, kwargs) ==
    IF kwargs # <<>> \/ Len(args) \notin {2, 3} THEN Raise("TypeError", "target")
    ELSE IF ~Iterable(args[2]) \/ args[1].t # "fn" \/ ~AllInts(args[2].s)
         THEN Raise("TypeError", "target")
    ELSE IF Len(args) = 3 THEN Return(Fold(args[1].fn, args[3], args[2].s))
    ELSE IF args[2].s = <<>> THEN Raise("TypeError", "target")
    ELSE Return(Fold(args[1].fn, Head(args[2].s), Tail(args[2].s)))

\* func(*args, **kwargs) for a target func
Call(func, args, kwargs) ==
    CASE func = "add_if_less_last" ->
            IF Len(args) # 2 \/ kwargs # <<>> THEN Raise("TypeError", "target")
            ELSE add_if_less(args[1], args[2])
      [] func = "add_if_less_first" ->
            IF Len(args) # 2 \/ kwargs # <<>> THEN Raise("TypeError", "target")
            ELSE add_if_less(args[2], args[1])
      [] func = "filter" -> py_filter(args, kwargs)
      [] func = "map" -> py_map(args, kwargs)
      [] func = "list" -> py_list(args, kwargs)
      [] func = "reduce" -> py_reduce(args, kwargs)
      [] func = "boom" -> Raise("ValueError", "target")
      [] OTHER -> Return(Res(func, args, kwargs))

(***************************************************************************)
(* The decorators.  An operation yields an effect: its outcome `out`, the  *)
(* target invocations it made (`invoked`, in order), and, for a method of  *)
(* a Wrapper, the Wrapper as the method leaves it (`self`).                *)
(***************************************************************************)
Eff(out, invoked, self) == [out |-> out, invoked |-> invoked, self |-> self]
Invocation(func, args, kwargs) == [func |-> func, args |-> args, kwargs |-> kwargs]

\* a call expression func(*args, **kwargs) evaluated inside a method of self
Invoke(func, args, kwargs, self) ==
    Eff(Call(func, args, kwargs), <<Invocation(func, args, kwargs)>>, self)

\* Wrapper.__new__(cls, args, kwargs) of the class that `policy` defines
Wrapper(policy, func, args, kwargs) ==
    [t |-> "cap", policy |-> policy, func |-> func, args |-> args, kwargs |-> kwargs]

\* the function `wrapper` a decorator returns, closed over func; `id` tells
\* the factories of the registration loops apart (0 for any other factory)
Factory(policy, func, id) == [t |-> "factory", policy |-> policy, func |-> func, id |-> id]

pipe(func, id) == Eff(Return(Factory("pipe", func, id)), <<>>, None)
pipe0(func, id) == Eff(Return(Factory("pipe0", func, id)), <<>>, None)
pipestar(func, id) == Eff(Return(Factory("pipestar", func, id)), <<>>, None)

\* a wrapper that applies at once: return func(*args, **kwargs)
pipe_wrapper_eager(func, args, kwargs) == Invoke(func, args, kwargs, None)

\* wrapper(*args, **kwargs) of pipe, of pipe0 and of pipestar
pipe_wrapper(func, args, kwargs) ==
    Eff(Return(Wrapper("pipe", func, args, kwargs)), <<>>, None)
pipe0_wrapper(func, args, kwargs) ==
    Eff(Return(Wrapper("pipe0", func, args, kwargs)), <<>>, None)
pipestar_wrapper(func, args, kwargs) ==
    Eff(Return(Wrapper("pipestar", func, args, kwargs)), <<>>, None)

\* a __ror__ that puts the piped value first: func(arg, *self.args, **self.kwargs)
pipe_ror_first(self, arg) ==
    Invoke(self.func, <<arg>> \o self.args, self.kwargs, self)

\* a __ror__ that calls the target and drops its result (no return)
pipe_ror_noreturn(self, arg) ==
    [Invoke(self.func, self.args \o <<arg>>, self.kwargs, self) EXCEPT !.out = Return(None)]

\* Wrapper.__ror__(self, arg) of pipe: func(*self.args, arg, **self.kwargs)
pipe_ror(self, arg) ==
    Invoke(self.func, self.args \o <<arg>>, self.kwargs, self)

\* a __ror__ that catches the target's error and returns None
pipe0_ror_swallow(self, arg) ==
    LET r == Invoke(self.func, self.args \o <<arg>>, self.kwargs, self)
    IN IF r.out.kind = "raise" THEN [r EXCEPT !.out = Return(None)] ELSE r

\* a __ror__ that keeps the piped value: self.args += (arg,) before the call
pipe0_ror_extend(self, arg) ==
    Invoke(self.func, self.args \o <<arg>>, self.kwargs,
           [self EXCEPT !.args = self.args \o <<arg>>])

\* Wrapper.__ror__(self, arg) of pipe0: func(*self.args, arg, **self.kwargs)
pipe0_ror(self, arg) ==
    Invoke(self.func, self.args \o <<arg>>, self.kwargs, self)

\* a __ror__ that passes the piped value whole: func(*self.args, arg, **self.kwargs)
pipestar_ror_nospread(self, arg) ==
    IF ~Iterable(arg) THEN Eff(Raise("TypeError", "unpack"), <<>>, self)
    ELSE Invoke(self.func, self.args \o <<arg>>, self.kwargs, self)

\* a __ror__ that takes a value that is not iterable as one argument
pipestar_ror_scalar(self, arg) ==
    Invoke(self.func, self.args \o (IF Iterable(arg) THEN arg.s ELSE <<arg>>), self.kwargs, self)

\* Wrapper.__ror__(self, arg) of pipestar: func(*self.args, *arg, **self.kwargs)
pipestar_ror(self, arg) ==
    IF ~Iterable(arg) THEN Eff(Raise("TypeError", "unpack"), <<>>, self)
    ELSE Invoke(self.func, self.args \o arg.s, self.kwargs, self)

\* factory(*args, **kwargs)
FactoryCall(f, args, kwargs) ==
    CASE f.policy = "pipe" -> pipe_wrapper(f.func, args, kwargs)
      [] f.policy = "pipe0" -> pipe0_wrapper(f.func, args, kwargs)
      [] f.policy = "pipestar" -> pipestar_wrapper(f.func, args, kwargs)

\* capture(*args, **kwargs): no Wrapper class defines __call__
WrapperCall(self, args, kwargs) == Eff(Raise("TypeError", "call"), <<>>, self)

\* x | capture: no left operand of the model defines | for a Wrapper, so
\* Python falls back to the right operand's __ror__
BinOr(x, self) ==
    CASE self.policy = "pipe" -> pipe_ror(self, x)
      [] self.policy = "pipe0" -> pipe0_ror(self, x)
      [] self.policy = "pipestar" -> pipestar_ror(self, x)

(***************************************************************************)
(* Module initialisation: the registration loops                           *)
(***************************************************************************)
BuiltinNames == <<"all", "any", "dict", "enumerate", "filter", "len", "list", "min",
                  "map", "max", "reversed", "set", "sum", "tuple", "zip">>
PrintNames == <<"print">>
ItertoolsNames == <<"accumulate", "chain", "compress", "cycle", "dropwhile",
                    "filterfalse", "groupby", "product", "repeat", "starmap",
                    "takewhile", "tee", "zip_longest">>
ReduceNames == <<"reduce">>

\* _g[name] = _g[alias] = value
Bind2(g, name, alias, value) ==
    [n \in DOMAIN g \cup {name, alias} |-> IF n \in {name, alias} THEN value ELSE g[n]]

\* an iteration that binds the alias alone: _g['p'+name] = deco(...)
Register_aliasonly(g, a, name, f) ==
    [g |-> Bind2(g, "p" \o name, "p" \o name, f), a |-> Append(a, "p" \o name)]

\* one iteration of a registration loop:
\*   _g[name] = _g['p'+name] = deco(getattr(module, name)); __all__.append('p'+name)
Register(g, a, name, f) ==
    [g |-> Bind2(g, name, "p" \o name, f), a |-> Append(a, "p" \o name)]

\* the number of wraps the module has made when globals g is reached
Wraps(g) == Cardinality({g[n].id : n \in DOMAIN g})

LoopStep(loop, names, next, policy) ==
    /\ pc = loop
    /\ LET name == names[idx]
           w == CASE policy = "pipe" -> pipe(name, Wraps(globals) + 1)
                  [] policy = "pipestar" -> pipestar(name, Wraps(globals) + 1)
           r == Register(globals, all, name, w.out.val)
       IN /\ globals' = r.g
          /\ all' = r.a
          /\ direct' = direct \o w.invoked
    /\ IF idx < Len(names) THEN idx' = idx + 1 /\ pc' = pc
       ELSE idx' = 1 /\ pc' = next
    /\ UNCHANGED <<scenario, fac, caps, given, x0, steps, last>>

RegisterBuiltins == LoopStep("builtins", BuiltinNames, "print", "pipe")
RegisterPrint == LoopStep("print", PrintNames, "join", "pipestar")

\* _g['join'] = _g['pjoin'] = pipe(str.join); __all__.append('pjoin')
RegisterJoin ==
    /\ pc = "join"
    /\ LET w == pipe("str.join", Wraps(globals) + 1)
       IN /\ globals' = Bind2(globals, "join", "pjoin", w.out.val)
          /\ all' = Append(all, "pjoin")
          /\ direct' = direct \o w.invoked
    /\ pc' = "itertools"
    /\ UNCHANGED <<idx, scenario, fac, caps, given, x0, steps, last>>

RegisterItertools == LoopStep("itertools", ItertoolsNames, "reduce", "pipe")
RegisterReduce == LoopStep("reduce", ReduceNames, "del", "pipe")

\* del _g: the module is initialised
DelG ==
    /\ pc = "del"
    /\ pc' = "ready"
    /\ UNCHANGED <<idx, globals, all, scenario, fac, caps, given, x0, steps, last, direct>>

(***************************************************************************)
(* The client program.  It runs once the module is initialised and draws   *)
(* its functions, arguments and piped values from one of three families:   *)
(* "generic" (uninterpreted targets, any arity and keywords), "doctest"    *)
(* (the add_if_less examples) and "library" (the registered factories).    *)
(* It is a sequence of statements: one that wraps or imports ends the      *)
(* expression statement before it, and the evaluation of an expression     *)
(* x | c1 | ... | cn pipes x through captures made before it began.        *)
(***************************************************************************)
Scenarios == {"generic", "doctest", "library"}
Slots == {"c1", "c2", "c3"}
Policies == {"pipe", "pipe0", "pipestar"}

A == Sym("a")
B == Sym("b")
D == Sym("d")

UserFuncs(sc) ==
    CASE sc = "generic" -> {"f", "boom"}
      [] sc = "doctest" -> {"add_if_less_last", "add_if_less_first"}
      [] sc = "library" -> {}

\* the names the program binds captures to
SlotsOf(sc) == IF sc = "library" THEN Slots ELSE {"c1", "c2"}

ImportNames(sc) ==
    IF sc = "library" THEN {"pfilter", "pmap", "plist", "preduce", "reduce"} ELSE {}

ArgChoices(func) ==
    CASE func = "f" -> {<<>>, <<A>>, <<A, B>>}
      [] func = "boom" -> {<<A>>}
      [] func \in {"add_if_less_last", "add_if_less_first"} -> {<<I(6)>>}
      [] func = "filter" -> {<<Fn("odd")>>}
      [] func = "map" -> {<<Fn("inc")>>}
      [] func = "reduce" -> {<<Fn("add")>>}
      [] OTHER -> {<<>>}

KwargChoices(func) ==
    CASE func = "f" -> {<<>>, <<Kw("c", D)>>}
      [] func = "reduce" -> {<<>>, <<Kw("initial", I(10))>>}
      [] OTHER -> {<<>>}

PipedValues(sc) ==
    CASE sc = "generic" -> {List(<<I(1), I(2)>>), List(<<>>), I(5)}
      [] sc = "doctest" -> {Range(10), I(5)}
      [] sc = "library" -> {Range(10), List(<<I(1), I(2)>>), List(<<>>)}

\* the target of the factory the program holds, if it holds one
FuncOf(f) == IF f.t = "factory" THEN f.func ELSE ""

\* the value of the expression evaluated so far: the left operand of the
\* next |, which Python groups to the left
Cur == IF steps = <<>> THEN Return(x0) ELSE steps[Len(steps)].out

\* fac = pipe(func), pipe0(func) or pipestar(func)
Wrap(policy, func) ==
    /\ pc = "ready"
    /\ LET w == CASE policy = "pipe" -> pipe(func, 0)
                  [] policy = "pipe0" -> pipe0(func, 0)
                  [] policy = "pipestar" -> pipestar(func, 0)
       IN /\ fac' = w.out.val
          /\ direct' = direct \o w.invoked
    /\ x0' = None
    /\ steps' = <<>>
    /\ last' = None
    /\ UNCHANGED <<pc, idx, globals, all, scenario, caps, given>>

\* from pipeit import name
Import(name) ==
    /\ pc = "ready"
    /\ name \in DOMAIN globals
    /\ fac' = globals[name]
    /\ x0' = None
    /\ steps' = <<>>
    /\ last' = None
    /\ UNCHANGED <<pc, idx, globals, all, scenario, caps, given, direct>>

\* slot = fac(*args, **kwargs)
CallFactory(slot, args, kwargs) ==
    /\ pc = "ready"
    /\ fac.t = "factory"
    /\ LET r == FactoryCall(fac, args, kwargs)
       IN /\ caps' = [caps EXCEPT ![slot] = IF r.out.kind = "return" THEN r.out.val ELSE None]
          /\ direct' = direct \o r.invoked
    /\ given' = [given EXCEPT ![slot] = [args |-> args, kwargs |-> kwargs]]
    /\ UNCHANGED <<pc, idx, globals, all, scenario, fac, x0, steps, last>>

\* the statement slot(): an attempt to apply the capture by calling it
CallCapture(slot) ==
    /\ pc = "ready"
    /\ caps[slot].t = "cap"
    /\ LET r == WrapperCall(caps[slot], <<>>, <<>>)
       IN /\ last' = r.out
          /\ direct' = direct \o r.invoked
          /\ caps' = [caps EXCEPT ![slot] = r.self]
    /\ x0' = None
    /\ steps' = <<>>
    /\ fac' = None
    /\ UNCHANGED <<pc, idx, globals, all, scenario, given>>

\* a new expression starts with the piped value x as its left operand
StartExpr(x) ==
    /\ pc = "ready"
    /\ x0' = x
    /\ steps' = <<>>
    /\ last' = None
    /\ fac' = None
    /\ UNCHANGED <<pc, idx, globals, all, scenario, caps, given, direct>>

\* <expression so far> | slot
PipeOp(slot) ==
    /\ pc = "ready"
    /\ x0 # None
    /\ Len(steps) < MaxChain
    /\ Cur.kind = "return"
    /\ caps[slot].t = "cap"
    /\ LET r == BinOr(Cur.val, caps[slot])
       IN /\ steps' = Append(steps, [slot |-> slot, cap |-> caps[slot], arg |-> Cur.val,
                                     out |-> r.out, invoked |-> r.invoked])
          /\ caps' = [caps EXCEPT ![slot] = r.self]
    /\ UNCHANGED <<pc, idx, globals, all, scenario, fac, given, x0, last, direct>>

Init ==
    /\ pc = "builtins"
    /\ idx = 1
    /\ globals = <<>>
    /\ all = <<"pipe", "pipe0", "pipestar">>
    /\ scenario \in Scenarios
    /\ fac = None
    /\ caps = [s \in Slots |-> None]
    /\ given = [s \in Slots |-> None]
    /\ x0 = None
    /\ steps = <<>>
    /\ last = None
    /\ direct = <<>>

Next ==
    \/ RegisterBuiltins
    \/ RegisterPrint
    \/ RegisterJoin
    \/ RegisterItertools
    \/ RegisterReduce
    \/ DelG
    \/ \E policy \in Policies, func \in UserFuncs(scenario) : Wrap(policy, func)
    \/ \E name \in ImportNames(scenario) : Import(name)
    \/ \E slot \in SlotsOf(scenario), args \in ArgChoices(FuncOf(fac)),
          kwargs \in KwargChoices(FuncOf(fac)) :
          CallFactory(slot, args, kwargs)
    \/ \E slot \in SlotsOf(scenario) : CallCapture(slot)
    \/ \E x \in PipedValues(scenario) : StartExpr(x)
    \/ \E slot \in SlotsOf(scenario) : PipeOp(slot)

Spec == Init /\ [][Next]_vars

(***************************************************************************)
(* Properties                                                              *)
(***************************************************************************)
StepIds == 1..Len(steps)

\* the pipe operation of step k made exactly the call func(*args, **kwargs)
\* and its outcome is that call's outcome
Applied(k, func, args, kwargs) ==
    /\ steps[k].invoked = <<Invocation(func, args, kwargs)>>
    /\ steps[k].out = Call(func, args, kwargs)

\* C1: under pipe0 the piped value is the FIRST positional argument:
\* x | pipe0(f)(a, b, **kw) calls f(x, a, b, **kw), and with add_if_less(xs, n)
\* wrapped by pipe0, range(10) | add_if_less(6) yields 15.
C1_PrependFirst ==
    \A k \in StepIds :
        LET c == steps[k].cap IN
        c.policy = "pipe0" =>
            /\ Applied(k, c.func, <<steps[k].arg>> \o c.args, c.kwargs)
            /\ (c.func = "add_if_less_first" /\ c.args = <<I(6)>> /\ steps[k].arg = Range(10)
                    => steps[k].out = Return(I(15)))

\* C2: under pipe the piped value follows all captured positional arguments,
\* which keep their order, and the keyword arguments pass through by name:
\* x | pipe(f)(a, b, c=d) calls f(a, b, x, c=d); with add_if_less(n, xs)
\* wrapped by pipe, range(10) | add_if_less(6) yields 15.
C2_AppendLast ==
    \A k \in StepIds :
        LET c == steps[k].cap
            n == Len(c.args)
        IN
        c.policy = "pipe" =>
            /\ Len(steps[k].invoked) = 1
            /\ LET call == steps[k].invoked[1] IN
                /\ call.func = c.func
                /\ Len(call.args) = n + 1
                /\ \A j \in 1..n : call.args[j] = c.args[j]
                /\ call.args[n + 1] = steps[k].arg
                /\ call.kwargs = c.kwargs
                /\ steps[k].out = Call(c.func, call.args, call.kwargs)
            /\ (c.func = "add_if_less_last" /\ c.args = <<I(6)>> /\ steps[k].arg = Range(10)
                    => steps[k].out = Return(I(15)))

\* C2 witness: x | pipe(f)(a, b, c=d) has called f(a, b, x, c=d)
C2_Witness ==
    \E k \in StepIds :
        /\ steps[k].cap = Wrapper("pipe", "f", <<A, B>>, <<Kw("c", D)>>)
        /\ steps[k].out = Return(Res("f", <<A, B, steps[k].arg>>, <<Kw("c", D)>>))

\* C3: under pipestar the elements of a piped finite sequence (the empty one
\* included) are passed one by one, in order, after the captured positional
\* arguments: xs | pipestar(f)(a, **kw) calls f(a, xs[0], ..., xs[n-1], **kw).
C3_SpreadAfter ==
    \A k \in StepIds :
        LET c == steps[k].cap
            n == Len(c.args)
            xs == steps[k].arg
        IN
        c.policy = "pipestar" /\ Iterable(xs) =>
            /\ Len(steps[k].invoked) = 1
            /\ LET call == steps[k].invoked[1] IN
                /\ call.func = c.func
                /\ Len(call.args) = n + Len(xs.s)
                /\ \A j \in 1..n : call.args[j] = c.args[j]
                /\ \A j \in 1..Len(xs.s) : call.args[n + j] = xs.s[j]
                /\ call.kwargs = c.kwargs
                /\ steps[k].out = Call(c.func, call.args, call.kwargs)

\* C3 witness: [1, 2] | pipestar(f)(a) has returned f(a, 1, 2)
C3_Witness ==
    \E k \in StepIds :
        /\ steps[k].cap = Wrapper("pipestar", "f", <<A>>, <<>>)
        /\ steps[k].arg = List(<<I(1), I(2)>>)
        /\ steps[k].out = Return(Res("f", <<A, I(1), I(2)>>, <<>>))

\* C4: only a pipe operation invokes a target: wrapping, calling a factory
\* and calling a capture invoke nothing; a factory returns a capture and a
\* call of a capture fails, so neither yields the target's result.
C4_OnlyPipeApplies ==
    /\ direct = <<>>
    /\ fac.t \in {"none", "factory"}
    /\ \A s \in Slots : caps[s] = None \/
           caps[s] \in {Wrapper(q, caps[s].func, given[s].args, given[s].kwargs) : q \in Policies}
    /\ last \in {None, Raise("TypeError", "call")}

\* C4 witness: a function was wrapped, its factory called with two arguments
\* and a keyword, and the capture called directly
C4_Witness ==
    /\ last = Raise("TypeError", "call")
    /\ \E q \in Policies : caps["c1"] = Wrapper(q, "f", <<A, B>>, <<Kw("c", D)>>)

\* C5: a chain x | c1 | ... | cn applies c1 to x, then each next capture to
\* the value the previous one returned, each target once and in chain order,
\* and two links give what the grouping (x | c1) | c2 gives;
\* range(10) | pfilter(odd) | pmap(+1) | plist() yields [2, 4, 6, 8, 10].
C5_ChainLeftToRight ==
    /\ \A k \in StepIds :
          /\ steps[k].arg = IF k = 1 THEN x0 ELSE steps[k - 1].out.val
          /\ k > 1 => steps[k - 1].out.kind = "return"
          /\ \/ steps[k].out = Raise("TypeError", "unpack") /\ steps[k].invoked = <<>>
             \/ Len(steps[k].invoked) = 1 /\ steps[k].invoked[1].func = steps[k].cap.func
    /\ Len(steps) = 2 =>
          Cur = BinOr(BinOr(x0, steps[1].cap).out.val, steps[2].cap).out
    /\ ( /\ x0 = Range(10)
         /\ Len(steps) = 3
         /\ steps[1].cap = Wrapper("pipe", "filter", <<Fn("odd")>>, <<>>)
         /\ steps[2].cap = Wrapper("pipe", "map", <<Fn("inc")>>, <<>>)
         /\ steps[3].cap = Wrapper("pipe", "list", <<>>, <<>>) )
       => Cur = Return(List(<<I(2), I(4), I(6), I(8), I(10)>>))

\* C5 witness: range(10) | pfilter(odd) | pmap(+1) | plist() was evaluated
C5_Witness ==
    /\ x0 = Range(10)
    /\ Len(steps) = 3
    /\ steps[1].cap = Wrapper("pipe", "filter", <<Fn("odd")>>, <<>>)
    /\ steps[2].cap = Wrapper("pipe", "map", <<Fn("inc")>>, <<>>)
    /\ steps[3].cap = Wrapper("pipe", "list", <<>>, <<>>)
    /\ steps[3].out.kind = "return"

\* C6: piping a value that is not iterable into a pipestar capture fails
\* with the error of the unpacking, and the target is not invoked.
C6_SpreadNeedsIterable ==
    \A k \in StepIds :
        steps[k].cap.policy = "pipestar" /\ ~Iterable(steps[k].arg) =>
            /\ steps[k].out = Raise("TypeError", "unpack")
            /\ steps[k].invoked = <<>>

\* C6 witness: the scalar 5 was piped into pipestar(f)(a)
C6_Witness ==
    \E k \in StepIds :
        /\ steps[k].cap = Wrapper("pipestar", "f", <<A>>, <<>>)
        /\ steps[k].arg = I(5)
        /\ steps[k].out.kind = "raise"

\* C7: under every policy a pipe operation invokes the target exactly once
\* and its outcome is that call's outcome, value or error alike; the one
\* failure that is not the target's is the unpacking error of pipestar on a
\* value that is not iterable, raised without invoking the target.
C7_Transparent ==
    \A k \in StepIds :
        LET c == steps[k].cap
            scalar == c.policy = "pipestar" /\ ~Iterable(steps[k].arg)
        IN
        /\ scalar => steps[k].invoked = <<>> /\ steps[k].out = Raise("TypeError", "unpack")
        /\ ~scalar =>
              /\ Len(steps[k].invoked) = 1
              /\ steps[k].invoked[1].func = c.func
              /\ steps[k].out = Call(c.func, steps[k].invoked[1].args, steps[k].invoked[1].kwargs)
        /\ steps[k].out.kind = "raise" /\ steps[k].out.by # "target" => scalar

\* C7 witness: a target that fails was applied under pipe0 and its error is
\* the outcome of the pipe operation
C7_Witness ==
    \E k \in StepIds :
        /\ steps[k].cap.policy = "pipe0"
        /\ steps[k].cap.func = "boom"
        /\ steps[k].out = Raise("ValueError", "target")

\* C8: xs | preduce(f, initial=v) yields what reduce(f, xs, v) yields, for
\* every finite sequence xs, the empty one included.
C8_ReduceInitialKeyword ==
    \A k \in StepIds :
        LET c == steps[k].cap IN
        ( /\ c.policy = "pipe"
          /\ c.func = "reduce"
          /\ Len(c.args) = 1
          /\ Len(c.kwargs) = 1
          /\ c.kwargs[1].k = "initial"
          /\ Iterable(steps[k].arg) )
        => steps[k].out = py_reduce(<<c.args[1], steps[k].arg, c.kwargs[1].v>>, <<>>)

RegisteredNames ==
    {BuiltinNames[k] : k \in DOMAIN BuiltinNames}
        \cup {PrintNames[k] : k \in DOMAIN PrintNames}
        \cup {ItertoolsNames[k] : k \in DOMAIN ItertoolsNames}
        \cup {ReduceNames[k] : k \in DOMAIN ReduceNames}
        \cup {"join"}

Exported == {all[k] : k \in DOMAIN all}

\* C9 as stated: once the module is initialised, the exported interface
\* (__all__) holds every registered function's original name and its
\* p-prefixed alias, and both names are bound to one factory.
C9_ExportsBothNames ==
    pc = "ready" =>
        \A n \in RegisteredNames :
            /\ n \in Exported
            /\ ("p" \o n) \in Exported
            /\ n \in DOMAIN globals /\ ("p" \o n) \in DOMAIN globals
            /\ globals[n] = globals["p" \o n]

\* C9 as amended: once the module is initialised, the module's namespace
\* holds every registered function's original name and its p-prefixed alias,
\* both bound to one factory made by one wrap of that function, and __all__
\* holds pipe, pipe0, pipestar and the aliases, not the original names.
C9_BothNamesAliasExported ==
    pc = "ready" =>
        /\ DOMAIN globals = RegisteredNames \cup {"p" \o n : n \in RegisteredNames}
        /\ \A n \in RegisteredNames :
              /\ globals[n] = globals["p" \o n]
              /\ globals[n].t = "factory"
              /\ globals[n].func = (IF n = "join" THEN "str.join" ELSE n)
              /\ globals[n].policy = (IF n = "print" THEN "pipestar" ELSE "pipe")
              /\ \A m \in RegisteredNames : m # n => globals[m].id # globals[n].id
        /\ Exported = {"pipe", "pipe0", "pipestar"} \cup {"p" \o n : n \in RegisteredNames}
        /\ Len(all) = Cardinality(Exported)

\* C9 witness: the module is initialised and the program has imported preduce
C9_Witness ==
    /\ pc = "ready"
    /\ fac.t = "factory"
    /\ fac = globals["preduce"]
    /\ fac = globals["reduce"]

\* C10: a pipe operation leaves the capture as the factory made it, whether
\* the target returns or fails: every capture holds the arguments given to
\* its factory, after any number of pipe operations on it or on another one,
\* and every pipe operation found its capture holding them.
C10_CaptureUnchanged ==
    /\ \A s \in Slots : caps[s] # None =>
          /\ caps[s].args = given[s].args
          /\ caps[s].kwargs = given[s].kwargs
    /\ \A k \in StepIds :
          /\ steps[k].cap = caps[steps[k].slot]
          /\ steps[k].cap.args = given[steps[k].slot].args
          /\ steps[k].cap.kwargs = given[steps[k].slot].kwargs

\* C10 witness: one capture was piped twice, then a second one made by the
\* same factory with other arguments, and both still hold their arguments
C10_Witness ==
    /\ Len(steps) = 3
    /\ steps[1].cap = caps["c1"]
    /\ steps[2].cap = caps["c1"]
    /\ steps[3].cap = caps["c2"]
    /\ caps["c1"] = Wrapper("pipe0", "f", <<A, B>>, <<Kw("c", D)>>)
    /\ caps["c2"] = Wrapper("pipe0", "f", <<A>>, <<>>)

====
